---- MODULE Spec2Model ----
(***************************************************************************)
(* Model of backup.py: one backup job (main) run repeatedly against the   *)
(* same destination directory.  The state is the filesystem under the     *)
(* destination (directories, files, modification times), the clock, the   *)
(* position of the running job and its local variables, and the entries   *)
(* the job has written to its log.                                        *)
(*                                                                         *)
(* Every filesystem call that can raise is a nondeterministic choice      *)
(* between its outcomes; where the exception goes is decided by the       *)
(* try/except structure of the source.                                    *)
(*                                                                         *)
(* Not modelled: the -c, -l and -v options (compression level, log path,  *)
(* verbosity) and the contents of files.                                  *)
(***************************************************************************)
EXTENDS Integers, Sequences, FiniteSets, TLC

\* ------------------------------------------------------------- bounds
\* The clock runs over 0..MaxClock (seconds); so do the modification times
\* of the files found in the destination before the first run.
MaxClock == 2
\* Number of runs of main.
MaxRuns == 2
\* Largest value of -m/--manter.
MaxKeep == 2

\* -m is any integer (argparse type=int): zero and a negative value included.
KeepCounts == (-1)..MaxKeep

\* Timestamps of the archives a previous job left in the destination.
PreStems == {-1, -2}

VARIABLES
    dirs,                  \* directories that exist: subset of {"dest", "dest/logs"}
    files,                 \* files that exist under the destination
    mtime,                 \* modification time of each file of `files`
    broken,                \* entries whose stat() raises (dangling symlinks)
    now,                   \* the clock, in seconds
    runs,                  \* number of runs started
    pc,                    \* position of the job
    args,                  \* the parsed command line of the running job
    arquivo_backup,        \* main: the archive the running job writes
    sucesso_compressao,    \* main: what comprimir_pasta returned
    retorno_limpar,        \* what limpar_backups_antigos returned
    arquivos,              \* limpar_backups_antigos: the result of glob
    arquivos_para_remover, \* limpar_backups_antigos: the deletion candidates
    idx,                   \* limpar_backups_antigos: position of the for loop
    log,                   \* entries the running job has logged
    exc,                   \* the call whose exception is being raised, or "none"
    fs_run0,               \* the filesystem when the running job started
    fs_call0               \* the files and their modification times when the
                           \* running operation (comprimir_pasta,
                           \* limpar_backups_antigos) was called

vars == <<dirs, files, mtime, broken, now, runs, pc, args, arquivo_backup,
          sucesso_compressao, retorno_limpar, arquivos, arquivos_para_remover,
          idx, log, exc, fs_run0, fs_call0>>

\* ------------------------------------------------------------- names
\* A file is its directory and the three parts of its name.
File(d, p, s, e) == [dir |-> d, prefix |-> p, stem |-> s, ext |-> e]

NoFile == File("", "", 0, "")

\* backup_<nome_pasta>_<data_atual>.tar.gz in pasta_destino
ArquivoBackup(data_atual) == File("dest", "backup_", data_atual, ".tar.gz")

\* f"{arquivo_destino}.temp.tar"
TempTar(arquivo_destino) ==
    [arquivo_destino EXCEPT !.ext = arquivo_destino.ext \o ".temp.tar"]

\* <pasta_destino>/logs/backup_<timestamp>.log
LogFile(timestamp) == File("logs", "backup_", timestamp, ".log")

\* A plausible slip: the pattern "backup_*" without the extension.
MatchesAnyExt(f) == f.dir = "dest" /\ f.prefix = "backup_"

\* glob of os.path.join(pasta_backup, "backup_*.tar.gz"): the entries of the
\* destination directory itself (not of its subdirectories) whose name
\* starts with backup_ and ends with .tar.gz
Matches(f) == f.dir = "dest" /\ f.prefix = "backup_" /\ f.ext = ".tar.gz"

\* glob.glob(padrão)
Glob(fs) == {f \in fs : Matches(f)}

\* ------------------------------------------------------------- helpers
Min(a, b) == IF a < b THEN a ELSE b

Max(a, b) == IF a > b THEN a ELSE b

Range(s) == {s[i] : i \in 1..Len(s)}

\* Writing file f at time t.
SetMtime(mt, f, t) == [g \in (DOMAIN mt) \cup {f} |-> IF g = f THEN t ELSE mt[g]]

\* os.remove(f)
DropMtime(mt, f) == [g \in (DOMAIN mt) \ {f} |-> mt[g]]

\* sorted(arquivos, key=os.path.getmtime): the sort is stable over the order
\* glob lists the directory in, which is arbitrary, so files of equal
\* modification time come out in any order.
RECURSIVE SortedByMtime(_, _)
SortedByMtime(S, mt) ==
    IF S = {} THEN {<<>>}
    ELSE UNION {{<<f>> \o t : t \in SortedByMtime(S \ {f}, mt)} :
                f \in {g \in S : \A h \in S : mt[g] <= mt[h]}}

\* Python's s[:e]
SliceTo(s, e) ==
    LET stop == IF e < 0 THEN Max(e + Len(s), 0) ELSE Min(e, Len(s))
    IN  SubSeq(s, 1, stop)

\* Python's s[b:], for the slip below
SliceFrom(s, b) ==
    LET start == IF b < 0 THEN Max(b + Len(s), 0) ELSE Min(b, Len(s))
    IN  SubSeq(s, start + 1, Len(s))

\* A plausible slip: the newest files are the ones removed.
ArquivosParaRemoverNewest(arquivos_ordenados, manter_quantidade) ==
    IF Len(arquivos_ordenados) > manter_quantidade
    THEN SliceFrom(arquivos_ordenados, manter_quantidade)
    ELSE <<>>

\* arquivos_ordenados[:-manter_quantidade] if len(...) > manter_quantidade else []
ArquivosParaRemover(arquivos_ordenados, manter_quantidade) ==
    IF Len(arquivos_ordenados) > manter_quantidade
    THEN SliceTo(arquivos_ordenados, 0 - manter_quantidade)
    ELSE <<>>

\* logger.info / logger.error
Logged(level, msg) == Append(log, <<level, msg>>)

LoggedFile(level, msg, f) == Append(log, <<level, msg, f>>)

HasEntry(level, msg) == \E i \in 1..Len(log) : log[i][1] = level /\ log[i][2] = msg

\* Files named by the entries <<level, msg, file>> of the log.
FilesLogged(level, msg) ==
    {log[i][3] : i \in {j \in 1..Len(log) :
                          Len(log[j]) = 3 /\ log[j][1] = level /\ log[j][2] = msg}}

\* ------------------------------------------------------------- initial state
NoArgs == [origem_existe |-> FALSE, manter |-> 0]

PreArchives == {ArquivoBackup(s) : s \in PreStems}

Notes == File("dest", "notes", 0, ".txt")

StaleTemp == TempTar(ArquivoBackup(-1))

DanglingLink == ArquivoBackup(-9)

\* The destination before the first run: missing, or a directory holding any
\* of the archives of PreArchives with any modification times, a file of
\* another name, a temporary archive an earlier job left and, possibly, a
\* dangling symlink whose name matches the pattern.
Init ==
    /\ dirs \in {{}, {"dest"}}
    /\ \E pre \in SUBSET PreArchives, link \in SUBSET {DanglingLink} :
         /\ files = IF "dest" \in dirs THEN pre \cup link \cup {Notes, StaleTemp} ELSE {}
         /\ broken = files \cap {DanglingLink}
    /\ mtime \in [files -> 0..MaxClock]
    /\ \A f \in files \ PreArchives : mtime[f] = 0
    /\ now = 0
    /\ runs = 0
    /\ pc = "idle"
    /\ args = NoArgs
    /\ arquivo_backup = NoFile
    /\ sucesso_compressao = "none"
    /\ retorno_limpar = "none"
    /\ arquivos = {}
    /\ arquivos_para_remover = <<>>
    /\ idx = 0
    /\ log = <<>>
    /\ exc = "none"
    /\ fs_run0 = [dirs |-> dirs, files |-> files]
    /\ fs_call0 = [files |-> files, mtime |-> mtime]

\* ------------------------------------------------------------- main
\* main, lines 160-199: parse the command line, create <destino>/logs, open
\* the log file, log the start of the job.  os.makedirs and
\* logging.FileHandler are called outside any try: when one raises, the
\* exception leaves main.
StartRun ==
    /\ pc \in {"idle", "done", "crashed"}
    /\ runs < MaxRuns
    /\ \E existe \in BOOLEAN, manter \in KeepCounts, tick \in 0..1,
          setup \in {"ok", "makedirs", "filehandler"} :
         /\ now + tick <= MaxClock
         /\ setup = "makedirs" => ~({"dest", "dest/logs"} \subseteq dirs)
         /\ now' = now + tick
         /\ args' = [origem_existe |-> existe, manter |-> manter]
         /\ dirs' = IF setup = "makedirs" THEN dirs ELSE dirs \cup {"dest", "dest/logs"}
         /\ files' = IF setup = "ok" THEN files \cup {LogFile(now')} ELSE files
         /\ mtime' = IF setup = "ok" THEN SetMtime(mtime, LogFile(now'), now') ELSE mtime
         /\ log' = IF setup = "ok" THEN <<<<"info", "iniciando_processo">>>> ELSE <<>>
         /\ pc' = IF setup = "ok" THEN "check" ELSE "crashed"
         /\ exc' = IF setup = "ok" THEN "none" ELSE setup
    /\ runs' = runs + 1
    /\ fs_run0' = [dirs |-> dirs, files |-> files]
    /\ fs_call0' = [files |-> files, mtime |-> mtime]
    /\ arquivo_backup' = NoFile
    /\ sucesso_compressao' = "none"
    /\ retorno_limpar' = "none"
    /\ arquivos' = {}
    /\ arquivos_para_remover' = <<>>
    /\ idx' = 0
    /\ UNCHANGED broken

\* A plausible slip: the return after the error is missing.
CheckOrigemSemReturn ==
    /\ pc = "check"
    /\ log' = IF args.origem_existe THEN log ELSE Logged("error", "origem_nao_existe")
    /\ dirs' = dirs \cup {"dest"}
    /\ arquivo_backup' = ArquivoBackup(now)
    /\ pc' = "measure"
    /\ UNCHANGED <<files, mtime, broken, now, runs, args, sucesso_compressao,
                   retorno_limpar, arquivos, arquivos_para_remover, idx,
                   fs_run0, fs_call0, exc>>

\* main, lines 201-214: a missing source is logged and main returns; otherwise
\* the destination is created and the archive is named after the clock.
CheckOrigem ==
    /\ pc = "check"
    /\ IF ~args.origem_existe
       THEN /\ log' = Logged("error", "origem_nao_existe")
            /\ pc' = "done"
            /\ UNCHANGED <<dirs, arquivo_backup>>
       ELSE /\ dirs' = dirs \cup {"dest"}
            /\ arquivo_backup' = ArquivoBackup(now)
            /\ pc' = "measure"
            /\ UNCHANGED log
    /\ UNCHANGED <<files, mtime, broken, now, runs, args, sucesso_compressao,
                   retorno_limpar, arquivos, arquivos_para_remover, idx,
                   fs_run0, fs_call0, exc>>

\* main, lines 216-221: the size of the source is measured and logged.
\* calcular_tamanho_diretorio reads the source tree only.
Measure ==
    /\ pc = "measure"
    /\ log' = Logged("info", "tamanho_original")
    /\ pc' = "tar"
    /\ UNCHANGED <<dirs, files, mtime, broken, now, runs, args, arquivo_backup,
                   sucesso_compressao, retorno_limpar, arquivos,
                   arquivos_para_remover, idx, fs_run0, fs_call0, exc>>

\* ------------------------------------------------------------- comprimir_pasta
\* Lines 54-76: the entry is logged and shutil.make_archive writes
\* <arquivo_destino>.temp.tar.  It can raise before the file is opened
\* (permission denied) or while it is written (disk full): it does not remove
\* what it wrote.
MakeArchive ==
    /\ pc = "tar"
    /\ fs_call0' = [files |-> files, mtime |-> mtime]
    /\ log' = Logged("info", "iniciando_compressao")
    /\ \E outcome \in {"ok", "raise_before", "raise_partial"} :
         /\ files' = IF outcome = "raise_before" THEN files
                     ELSE files \cup {TempTar(arquivo_backup)}
         /\ mtime' = IF outcome = "raise_before" THEN mtime
                     ELSE SetMtime(mtime, TempTar(arquivo_backup), now)
         /\ pc' = IF outcome = "ok" THEN "gzip" ELSE "arch_except"
         /\ exc' = IF outcome = "ok" THEN "none" ELSE "make_archive"
    /\ UNCHANGED <<dirs, broken, now, runs, args, arquivo_backup,
                   sucesso_compressao, retorno_limpar, arquivos,
                   arquivos_para_remover, idx, fs_run0>>

\* Lines 78-88: the temporary archive is copied through gzip.open into
\* arquivo_destino.  It can raise before arquivo_destino is opened or during
\* the copy, which leaves a truncated arquivo_destino.
GzipCompress ==
    /\ pc = "gzip"
    /\ \E outcome \in {"ok", "raise_before", "raise_partial"} :
         /\ files' = IF outcome = "raise_before" THEN files
                     ELSE files \cup {arquivo_backup}
         /\ mtime' = IF outcome = "raise_before" THEN mtime
                     ELSE SetMtime(mtime, arquivo_backup, now)
         /\ pc' = IF outcome = "ok" THEN "rmtemp" ELSE "arch_except"
         /\ exc' = IF outcome = "ok" THEN "none" ELSE "gzip"
    /\ UNCHANGED <<dirs, broken, now, runs, args, arquivo_backup,
                   sucesso_compressao, retorno_limpar, arquivos,
                   arquivos_para_remover, idx, log, fs_run0, fs_call0>>

\* A plausible slip: success is returned without removing the temporary file.
RemoveTempSkipped ==
    /\ pc = "rmtemp"
    /\ log' = Logged("info", "backup_criado")
    /\ sucesso_compressao' = "True"
    /\ pc' = "report"
    /\ UNCHANGED <<dirs, files, mtime, broken, now, runs, args, arquivo_backup,
                   retorno_limpar, arquivos, arquivos_para_remover, idx,
                   fs_run0, fs_call0, exc>>

\* Lines 90-99: os.remove(temp_tar), the success entry, return True.  When
\* os.remove raises, the except clause of line 100 runs.
RemoveTemp ==
    /\ pc = "rmtemp"
    /\ \E removed \in BOOLEAN :
         IF removed
         THEN /\ files' = files \ {TempTar(arquivo_backup)}
              /\ mtime' = DropMtime(mtime, TempTar(arquivo_backup))
              /\ log' = Logged("info", "backup_criado")
              /\ sucesso_compressao' = "True"
              /\ pc' = "report"
              /\ UNCHANGED exc
         ELSE /\ pc' = "arch_except"
              /\ exc' = "remove"
              /\ UNCHANGED <<files, mtime, log, sucesso_compressao>>
    /\ UNCHANGED <<dirs, broken, now, runs, args, arquivo_backup,
                   retorno_limpar, arquivos, arquivos_para_remover, idx,
                   fs_run0, fs_call0>>

\* Lines 100-105: any Exception is logged and False is returned.  Nothing is
\* removed.
ArchiveExcept ==
    /\ pc = "arch_except"
    /\ log' = Append(log, <<"error", "erro_comprimir", exc>>)
    /\ exc' = "none"
    /\ sucesso_compressao' = "False"
    /\ pc' = "report"
    /\ UNCHANGED <<dirs, files, mtime, broken, now, runs, args, arquivo_backup,
                   retorno_limpar, arquivos, arquivos_para_remover, idx,
                   fs_run0, fs_call0>>

\* ------------------------------------------------------------- main, continued
\* A plausible slip: the retention step runs whatever comprimir_pasta returned.
ReportAlwaysPrune ==
    /\ pc = "report"
    /\ log' = IF sucesso_compressao = "True"
              THEN Logged("info", "tamanho_backup")
              ELSE Logged("error", "backup_falhou")
    /\ pc' = "prune_list"
    /\ UNCHANGED <<dirs, files, mtime, broken, now, runs, args, arquivo_backup,
                   sucesso_compressao, retorno_limpar, arquivos,
                   arquivos_para_remover, idx, fs_run0, fs_call0, exc>>

\* main, lines 226-242: after a success the size of the archive is read
\* (os.path.getsize, outside any try) and the statistics are logged, then
\* limpar_backups_antigos is called; after a failure "Backup falhou!" is logged.
Report ==
    /\ pc = "report"
    /\ IF sucesso_compressao = "True"
       THEN IF arquivo_backup \in files
            THEN /\ log' = Logged("info", "tamanho_backup")
                 /\ pc' = "prune_list"
                 /\ UNCHANGED exc
            ELSE /\ pc' = "crashed"
                 /\ exc' = "getsize"
                 /\ UNCHANGED log
       ELSE /\ log' = Logged("error", "backup_falhou")
            /\ pc' = "finish"
            /\ UNCHANGED exc
    /\ UNCHANGED <<dirs, files, mtime, broken, now, runs, args, arquivo_backup,
                   sucesso_compressao, retorno_limpar, arquivos,
                   arquivos_para_remover, idx, fs_run0, fs_call0>>

\* main, lines 244-246: the end of the job is logged and main returns.
Finish ==
    /\ pc = "finish"
    /\ log' = Logged("info", "processo_finalizado")
    /\ pc' = "done"
    /\ UNCHANGED <<dirs, files, mtime, broken, now, runs, args, arquivo_backup,
                   sucesso_compressao, retorno_limpar, arquivos,
                   arquivos_para_remover, idx, fs_run0, fs_call0, exc>>

\* ------------------------------------------------------------- limpar_backups_antigos
\* Lines 117-136: the entry is logged, the matching files are listed, sorted
\* by modification time and the candidates are sliced off.  os.path.getmtime
\* raises on an entry that cannot be stat'ed; sorted() then raises and the
\* except clause of line 152 runs.
PruneList ==
    /\ pc = "prune_list"
    /\ fs_call0' = [files |-> files, mtime |-> mtime]
    /\ log' = Logged("info", "verificando_backups")
    /\ arquivos' = Glob(files)
    /\ IF arquivos' \cap broken # {}
       THEN /\ pc' = "prune_except"
            /\ exc' = "getmtime"
            /\ UNCHANGED <<arquivos_para_remover, idx>>
       ELSE /\ \E arquivos_ordenados \in SortedByMtime(arquivos', mtime) :
                 arquivos_para_remover' =
                     ArquivosParaRemover(arquivos_ordenados, args.manter)
            /\ idx' = 1
            /\ pc' = "prune_loop"
            /\ UNCHANGED exc
    /\ UNCHANGED <<dirs, files, mtime, broken, now, runs, args, arquivo_backup,
                   sucesso_compressao, retorno_limpar, fs_run0>>

\* A plausible slip: a failed os.remove is logged and raised again, so it
\* ends the loop.
PruneRemoveAbortOnError ==
    /\ pc = "prune_loop"
    /\ idx <= Len(arquivos_para_remover)
    /\ LET arquivo == arquivos_para_remover[idx] IN
       \E removed \in BOOLEAN :
         IF removed
         THEN /\ files' = files \ {arquivo}
              /\ mtime' = DropMtime(mtime, arquivo)
              /\ broken' = broken \ {arquivo}
              /\ log' = LoggedFile("info", "removido", arquivo)
              /\ idx' = idx + 1
              /\ pc' = "prune_loop"
              /\ UNCHANGED exc
         ELSE /\ log' = LoggedFile("error", "erro_remover", arquivo)
              /\ pc' = "prune_except"
              /\ exc' = "remove"
              /\ UNCHANGED <<files, mtime, broken, idx>>
    /\ UNCHANGED <<dirs, now, runs, args, arquivo_backup, sucesso_compressao,
                   retorno_limpar, arquivos, arquivos_para_remover, fs_run0,
                   fs_call0>>

\* Lines 138-149: one turn of the for loop.  os.remove is in its own try: a
\* failure is logged and the loop goes on to the next candidate.
PruneRemove ==
    /\ pc = "prune_loop"
    /\ idx <= Len(arquivos_para_remover)
    /\ LET arquivo == arquivos_para_remover[idx] IN
       \E removed \in BOOLEAN :
         IF removed
         THEN /\ files' = files \ {arquivo}
              /\ mtime' = DropMtime(mtime, arquivo)
              /\ broken' = broken \ {arquivo}
              /\ log' = LoggedFile("info", "removido", arquivo)
         ELSE /\ log' = LoggedFile("error", "erro_remover", arquivo)
              /\ UNCHANGED <<files, mtime, broken>>
    /\ idx' = idx + 1
    /\ UNCHANGED <<dirs, now, runs, pc, args, arquivo_backup, sucesso_compressao,
                   retorno_limpar, arquivos, arquivos_para_remover, fs_run0,
                   fs_call0, exc>>

\* Line 151: the loop is over, return True.
PruneReturn ==
    /\ pc = "prune_loop"
    /\ idx > Len(arquivos_para_remover)
    /\ retorno_limpar' = "True"
    /\ pc' = "finish"
    /\ UNCHANGED <<dirs, files, mtime, broken, now, runs, args, arquivo_backup,
                   sucesso_compressao, arquivos, arquivos_para_remover, idx,
                   log, fs_run0, fs_call0, exc>>

\* Lines 152-157: any Exception of the listing is logged, return False.
PruneExcept ==
    /\ pc = "prune_except"
    /\ log' = Append(log, <<"error", "erro_limpar", exc>>)
    /\ exc' = "none"
    /\ retorno_limpar' = "False"
    /\ pc' = "finish"
    /\ UNCHANGED <<dirs, files, mtime, broken, now, runs, args, arquivo_backup,
                   sucesso_compressao, arquivos, arquivos_para_remover, idx,
                   fs_run0, fs_call0>>

\* ------------------------------------------------------------- specification
Next ==
    \/ StartRun
    \/ CheckOrigem
    \/ Measure
    \/ MakeArchive
    \/ GzipCompress
    \/ RemoveTemp
    \/ ArchiveExcept
    \/ Report
    \/ PruneList
    \/ PruneRemove
    \/ PruneReturn
    \/ PruneExcept
    \/ Finish

Spec == Init /\ [][Next]_vars

TypeOK ==
    /\ dirs \subseteq {"dest", "dest/logs"}
    /\ DOMAIN mtime = files
    /\ broken \subseteq files
    /\ now \in 0..MaxClock
    /\ runs \in 0..MaxRuns
    /\ sucesso_compressao \in {"none", "True", "False"}
    /\ retorno_limpar \in {"none", "True", "False"}
    /\ arquivos \subseteq fs_call0.files
    /\ idx \in 0..(Len(arquivos_para_remover) + 1)
    /\ exc \in {"none", "makedirs", "filehandler", "make_archive", "gzip",
                "remove", "getmtime", "getsize"}
    /\ (exc # "none") <=> (pc \in {"crashed", "arch_except", "prune_except"})

\* ------------------------------------------------------------- properties
\* The pattern backup_*.tar.gz as the retention contract words it.
IsBackupName(f) == f.dir = "dest" /\ f.prefix = "backup_" /\ f.ext = ".tar.gz"

Backups(fs) == {f \in fs : IsBackupName(f)}

Others(fs) == {f \in fs : ~IsBackupName(f)}

\* limpar_backups_antigos was called by the running job and has returned.
PruneOver == pc \in {"finish", "done"} /\ retorno_limpar # "none"

Removed == FilesLogged("info", "removido")

FailedRemovals == FilesLogged("error", "erro_remover")

\* Position of the first entry msg of the log, 0 when there is none.
Pos(msg) ==
    IF \E i \in 1..Len(log) : log[i][2] = msg
    THEN CHOOSE i \in 1..Len(log) :
           log[i][2] = msg /\ \A j \in 1..(i - 1) : log[j][2] # msg
    ELSE 0

Count(msg) == Cardinality({i \in 1..Len(log) : log[i][2] = msg})

LoggedError(msg, origin) ==
    \E i \in 1..Len(log) :
        Len(log[i]) = 3 /\ log[i][1] = "error" /\ log[i][2] = msg /\ log[i][3] = origin

\* C1: retention law.  For every retain count k >= 0 and m matching files,
\* after limpar_backups_antigos has returned with every deletion succeeded,
\* exactly max(0, m-k) matching files have been removed, they are the oldest
\* by modification time, and exactly min(m, k) remain.
C1_RetentionLaw ==
    (PruneOver /\ retorno_limpar = "True" /\ args.manter >= 0
       /\ FailedRemovals = {}) =>
        LET before == Backups(fs_call0.files)
            after == Backups(files)
            m == Cardinality(before)
            k == args.manter
        IN  /\ after \subseteq before
            /\ Cardinality(before \ after) = Max(0, m - k)
            /\ Cardinality(after) = Min(m, k)
            /\ \A r \in before \ after, a \in after :
                   fs_call0.mtime[r] <= fs_call0.mtime[a]

\* C2: a failed deletion never stops the loop.  Whatever removals fail, a
\* removal is attempted on every candidate, each file whose removal
\* succeeded is gone, and limpar_backups_antigos returns True.
C2_PruneToleratesFailures ==
    /\ pc = "prune_loop" =>
         /\ Removed \cup FailedRemovals =
                Range(SubSeq(arquivos_para_remover, 1, idx - 1))
         /\ Removed \cap files = {}
    /\ (PruneOver /\ arquivos \cap broken = {}) =>
         /\ retorno_limpar = "True"
         /\ Removed \cup FailedRemovals = Range(arquivos_para_remover)
         /\ Removed \cap FailedRemovals = {}
         /\ Removed \cap files = {}
         /\ FailedRemovals \subseteq files

\* A failed removal was followed by a successful one, and the step returned True.
C2_Witness ==
    /\ PruneOver
    /\ retorno_limpar = "True"
    /\ \E i, j \in 1..Len(log) :
         /\ i < j
         /\ log[i][2] = "erro_remover"
         /\ log[j][2] = "removido"

\* C3: limpar_backups_antigos never deletes or alters a file whose name does
\* not match backup_*.tar.gz (the logs subdirectory, a leftover .temp.tar
\* included): the non-matching files and their modification times are the
\* same during and after the call as before it.
C3_PruneKeepsOthers ==
    (pc \in {"prune_loop", "prune_except"} \/ PruneOver) =>
        /\ Others(files) = Others(fs_call0.files)
        /\ \A f \in Others(files) : mtime[f] = fs_call0.mtime[f]
        /\ {"dest", "dest/logs"} \subseteq dirs

\* The step removed a file while a leftover temporary archive, a file of
\* another name and the log file were in the destination.
C3_Witness ==
    /\ PruneOver
    /\ Removed # {}
    /\ {Notes, StaleTemp} \subseteq files
    /\ \E f \in files : f.dir = "logs"

\* The running job was started without its source directory.
SourceMissing == runs > 0 /\ ~args.origem_existe

\* C4: when the source directory does not exist, no archive file is created,
\* neither comprimir_pasta nor limpar_backups_antigos is invoked, no existing
\* archive is deleted, and main returns having logged an error.
C4_SourceMissing ==
    SourceMissing =>
        /\ Backups(files) = Backups(fs_run0.files)
        /\ \A f \in files \ fs_run0.files : f.dir = "logs"
        /\ pc \in {"check", "done", "crashed"}
        /\ sucesso_compressao = "none"
        /\ retorno_limpar = "none"
        /\ Count("iniciando_compressao") = 0
        /\ Count("verificando_backups") = 0
        /\ pc = "done" => HasEntry("error", "origem_nao_existe")

\* main has returned from a run without source, archives being in the destination.
C4_Witness ==
    /\ SourceMissing
    /\ pc = "done"
    /\ Backups(files) # {}
    /\ Cardinality(Backups(files)) > args.manter

\* C5: when the source directory does not exist, the run logs an error and
\* leaves the filesystem under the destination (the destination directory,
\* a logs subdirectory, a log file) as it was before the run.
C5_SourceMissingNoOutput ==
    (SourceMissing /\ pc = "done") =>
        /\ HasEntry("error", "origem_nao_existe")
        /\ dirs = fs_run0.dirs
        /\ files = fs_run0.files

\* comprimir_pasta has just returned.
ArchiveReturned == pc = "report"

\* C6: whenever comprimir_pasta returns True, the temporary archive
\* <arquivo_destino>.temp.tar, which exists while the archive is compressed,
\* has been deleted, arquivo_destino exists, and arquivo_destino is the only
\* file the call added.
C6_ArchiverSideEffects ==
    /\ pc \in {"gzip", "rmtemp"} => TempTar(arquivo_backup) \in files
    /\ (ArchiveReturned /\ sucesso_compressao = "True") =>
         /\ TempTar(arquivo_backup) \notin files
         /\ arquivo_backup \in files
         /\ files \ fs_call0.files \subseteq {arquivo_backup}
         /\ Others(fs_call0.files) \ {TempTar(arquivo_backup)} \subseteq files
         /\ Backups(fs_call0.files) \subseteq files

\* comprimir_pasta returned True and its archive is new.
C6_Witness ==
    /\ ArchiveReturned
    /\ sucesso_compressao = "True"
    /\ arquivo_backup \in files \ fs_call0.files

\* C7: when writing the intermediate archive fails, comprimir_pasta returns
\* False and neither <arquivo_destino>.temp.tar nor arquivo_destino exists
\* after the call.
C7_BuildFailureLeavesNothing ==
    (ArchiveReturned /\ LoggedError("erro_comprimir", "make_archive")) =>
        /\ sucesso_compressao = "False"
        /\ TempTar(arquivo_backup) \notin files
        /\ arquivo_backup \notin files

\* C8: every error of the archive step and of the prune step ends in a log
\* entry and a boolean outcome, no error of a run leaves main uncaught, and
\* a run whose source directory exists ends with its 'finished' log entry.
C8_NoUncaughtError ==
    /\ pc # "crashed"
    /\ LoggedError("erro_comprimir", "make_archive")
         \/ LoggedError("erro_comprimir", "gzip")
         \/ LoggedError("erro_comprimir", "remove") => sucesso_compressao = "False"
    /\ LoggedError("erro_limpar", "getmtime") => retorno_limpar = "False"
    /\ (pc = "done" /\ runs > 0 /\ args.origem_existe) =>
           log[Len(log)] = <<"info", "processo_finalizado">>

\* C9: the steps of a run come in the order measure, archive, report, prune;
\* the prune step is invoked at most once and only after the archive step
\* returned success; a run whose archive step fails deletes no archive.
C9_RunOrder ==
    /\ Count("tamanho_original") <= 1
    /\ Count("iniciando_compressao") <= 1
    /\ Count("tamanho_backup") <= 1
    /\ Count("verificando_backups") <= 1
    /\ Count("iniciando_compressao") = 1 =>
         0 < Pos("tamanho_original") /\ Pos("tamanho_original") < Pos("iniciando_compressao")
    /\ Count("tamanho_backup") = 1 =>
         0 < Pos("iniciando_compressao") /\ Pos("iniciando_compressao") < Pos("tamanho_backup")
    /\ Count("verificando_backups") = 1 =>
         0 < Pos("tamanho_backup") /\ Pos("tamanho_backup") < Pos("verificando_backups")
    /\ (pc \in {"prune_list", "prune_loop", "prune_except"} \/ retorno_limpar # "none") =>
         sucesso_compressao = "True"
    /\ sucesso_compressao = "False" =>
         /\ Backups(fs_run0.files) \subseteq files
         /\ Removed = {}

\* A run whose archive step failed has ended, with more archives in the
\* destination than the retain count.
C9_Witness ==
    /\ pc = "done"
    /\ sucesso_compressao = "False"
    /\ args.manter >= 1
    /\ Cardinality(Backups(files)) > args.manter
    /\ Count("tamanho_original") = 1

\* The archive of the run is strictly newer than every other matching entry.
FreshIsNewest ==
    \A f \in Backups(fs_call0.files) \ {arquivo_backup} :
        /\ f \notin broken
        /\ fs_call0.mtime[f] < fs_call0.mtime[arquivo_backup]

\* C10: when the archive step succeeded, the retain count is k >= 1 and every
\* other matching archive is strictly older than the one just written, that
\* archive is still there after the prune step, and at most k matching
\* archives remain when every deletion succeeded.
C10_FreshBackupSurvives ==
    (PruneOver /\ sucesso_compressao = "True" /\ args.manter >= 1 /\ FreshIsNewest) =>
        /\ arquivo_backup \in files
        /\ FailedRemovals = {} => Cardinality(Backups(files)) <= args.manter

\* The prune step removed older archives and the fresh one is kept.
C10_Witness ==
    /\ PruneOver
    /\ sucesso_compressao = "True"
    /\ args.manter >= 1
    /\ FreshIsNewest
    /\ Removed # {}
    /\ FailedRemovals = {}
    /\ runs > 1

====
